---- MODULE Spec2Model ----
(***************************************************************************)
(* Acute-ward bed occupancy simulation (RT_vidigi_des_model_classes.py).   *)
(*                                                                         *)
(* The model follows the code statement by statement.  Time is counted in  *)
(* whole hours.  The SimPy environment is modelled by its event queue: a   *)
(* set of events ordered by (time, priority, eid); one action processes    *)
(* the head event and runs the resumed process up to its next yield.       *)
(* Every pseudo-random generator is a stream determined by its seed: the   *)
(* value at a position of a stream is chosen when the position is first    *)
(* read and is the same on every later read of that position (drawn).      *)
(***************************************************************************)
EXTENDS Integers, Sequences, FiniteSets, TLC

(* ---------------------------- bounds ---------------------------------- *)
MaxPatients == 3      \* arrivals generated within one run
MaxBeds     == 2      \* largest g.n_beds explored
MaxRuns     == 2      \* largest g.number_of_runs explored

(* ----------------------- program constants ---------------------------- *)
HoursPerDay == 24     \* "% 24"
BlockedFrom == 12     \* ">= 12"
UniformLo   == 2      \* random.uniform(2.0, 5.0)
UniformHi   == 5
URGENT      == 0      \* simpy.core.URGENT
NORMAL      == 1      \* simpy.core.NORMAL
ArrSeed1    == 42     \* random_seed1 = run_number * 42
ArrSeed2    == 88     \* random_seed2 = run_number * 88

(* --------------------- sampled values explored ------------------------ *)
\* random.random() returns u / USteps; the draws 0 and 2/3 are explored
USteps == UniformHi - UniformLo
USet   == {0, 2}
\* the standard-normal draw behind Lognormal.sample(), by index
ZSet   == {1, 2}
\* Lognormal(mean = bed_short_los_mean).sample() for each normal draw
ShortLos == <<2, 5>>
\* Lognormal(mean = bed_long_los_mean).sample() for each normal draw
LongLos  == <<14, 26>>
\* NSPPThinning.sample() results
IATs == {7, 19}

Unset == -1           \* attribute not assigned yet
NaN   == -2           \* empty cell of a data frame
NoBed == 0            \* log entry without a resource_id

VARIABLES
    g,                 \* class g: the configuration
    presses,           \* times the user will still press "Run simulation"
    tpc,               \* position in Trial: "idle", "loop", "run", "done"
    run,               \* loop variable of run_trial
    df_trial_results,  \* Trial.df_trial_results: run -> row
    all_event_logs,    \* Trial.all_event_logs
    prev_logs,         \* all_event_logs returned by the previous trial
    rng,               \* seed and position of each generator
    drawn,             \* values read so far from each seeded stream
    env,               \* simpy.Environment: now, eid, queue
    beds,              \* simpy.Store: items, get_queue
    event_log,         \* Model.event_log
    patient_counter,   \* Model.patient_counter
    patients,          \* Model.patients: pathway_type of each Patient
    results_df,        \* Model.results_df: patient id -> row
    attrs,             \* Model attributes bed_los, arrival, wait_bed,
                       \* total_time, mean_q_time_bed, mean_los
    locals,            \* locals of each occupy_bed process
    sampled            \* history: length of stay sampled for each patient

vars == <<g, presses, tpc, run, df_trial_results, all_event_logs, prev_logs,
          rng, drawn, env, beds, event_log, patient_counter, patients,
          results_df, attrs, locals, sampled>>

trialVars == <<df_trial_results, all_event_logs, prev_logs, presses, run, tpc>>

(* ------------------------------ helpers ------------------------------- *)
RECURSIVE SumOver(_, _)
SumOver(f, S) ==
    IF S = {} THEN 0
    ELSE LET x == CHOOSE y \in S : TRUE IN f[x] + SumOver(f, S \ {x})

RECURSIVE Flatten(_)
Flatten(ss) == IF ss = <<>> THEN <<>> ELSE Head(ss) \o Flatten(Tail(ss))

\* pandas Series.mean(): sum over count, kept as a fraction
Mean(df, col) ==
    [num |-> SumOver([p \in DOMAIN df |-> df[p][col]], DOMAIN df),
     den |-> Cardinality(DOMAIN df)]

(* ----------------------- seeded random streams ------------------------ *)
StreamKey(kind, s1, s2) == <<kind, s1, s2>>

Stream(key) == IF key \in DOMAIN drawn THEN drawn[key] ELSE <<>>

\* the values position pos of stream key can deliver
Oracle(key, pos, support) ==
    IF pos <= Len(Stream(key)) THEN {Stream(key)[pos]} ELSE support

\* the streams after position pos of stream key delivered v
Deliver(d, key, pos, v) ==
    LET s == IF key \in DOMAIN d THEN d[key] ELSE <<>> IN
    IF pos <= Len(s) THEN d
    ELSE [k \in DOMAIN d \cup {key} |-> IF k = key THEN Append(s, v) ELSE d[k]]

RandomKey == StreamKey("random", rng.random.seed, 0)
ShortKey  == StreamKey("normal", rng.short.seed, 0)
LongKey   == StreamKey("normal", rng.long.seed, 0)
ArrKey    == StreamKey("nspp", rng.arrivals.seed1, rng.arrivals.seed2)

(* --------------------------- configuration ---------------------------- *)
\* g.sim_duration + g.warm_up_period
RunLengthAlt == g.sim_duration
RunLength == g.sim_duration + g.warm_up_period

\* one long run pressed once, or up to MaxRuns short runs pressed twice
Configs ==
    { [n_beds |-> n, number_of_runs |-> 1, sim_duration |-> 48,
       warm_up_period |-> 6, long_stay_prob |-> 10, random_number_set |-> 42,
       presses |-> 1] : n \in 1..MaxBeds }
    \cup
    { [n_beds |-> n, number_of_runs |-> r, sim_duration |-> 3,
       warm_up_period |-> 0, long_stay_prob |-> 10, random_number_set |-> 42,
       presses |-> 2] : n \in 1..MaxBeds, r \in 1..MaxRuns }

\* a configuration that Configuration's types exclude: no bed, or a
\* long-stay probability (in hundredths) above 1
FaultyConfigs ==
    { [n_beds |-> 0, number_of_runs |-> 1, sim_duration |-> 48,
       warm_up_period |-> 6, long_stay_prob |-> 10, random_number_set |-> 42,
       presses |-> 1],
      [n_beds |-> 1, number_of_runs |-> 1, sim_duration |-> 3,
       warm_up_period |-> 0, long_stay_prob |-> 150, random_number_set |-> 42,
       presses |-> 1] }

\* the dashboard has written the class attributes of g; nothing else exists
InitWith(configs) ==
    /\ \E c \in configs :
         /\ g = [n_beds |-> c.n_beds, number_of_runs |-> c.number_of_runs,
                 sim_duration |-> c.sim_duration,
                 warm_up_period |-> c.warm_up_period,
                 long_stay_prob |-> c.long_stay_prob,
                 random_number_set |-> c.random_number_set]
         /\ presses = c.presses
    /\ tpc = "idle"
    /\ run = 0
    /\ df_trial_results = <<>>
    /\ all_event_logs = <<>>
    /\ prev_logs = <<>>
    /\ rng = [random   |-> [seed |-> Unset, pos |-> 0],
              arrivals |-> [seed1 |-> Unset, seed2 |-> Unset, pos |-> 0],
              short    |-> [seed |-> Unset, pos |-> 0],
              long     |-> [seed |-> Unset, pos |-> 0]]
    /\ drawn = <<>>
    /\ env = [now |-> 0, eid |-> 0, queue |-> {}]
    /\ beds = [items |-> <<>>, get_queue |-> <<>>]
    /\ event_log = <<>>
    /\ patient_counter = 0
    /\ patients = <<>>
    /\ results_df = <<>>
    /\ attrs = [bed_los |-> Unset, arrival |-> Unset, wait_bed |-> Unset,
                total_time |-> Unset,
                mean_q_time_bed |-> [num |-> 0, den |-> 1],
                mean_los |-> [num |-> 0, den |-> 1]]
    /\ locals = <<>>
    /\ sampled = <<>>

Init == InitWith(Configs)

\* the classes driven by a caller that may also pass a faulty configuration
InitAny == InitWith(Configs \cup FaultyConfigs)

(* ------------------------ simpy.Environment --------------------------- *)
\* an entry of Environment._queue; value is the bed a get event delivers
Event(time, priority, eid, kind, pid, value) ==
    [time |-> time, priority |-> priority, eid |-> eid, kind |-> kind,
     pid |-> pid, value |-> value]

\* heap order of Environment._queue: (time, priority, eid)
Before(e, f) ==
    \/ e.time < f.time
    \/ e.time = f.time /\ e.priority < f.priority
    \/ e.time = f.time /\ e.priority = f.priority /\ e.eid <= f.eid

\* the event Environment.step() pops
NextEvent == CHOOSE e \in env.queue : \A f \in env.queue : Before(e, f)

Running == tpc = "run" /\ env.queue # {}

\* Environment.step(): pop the head, advance the clock, schedule news
Stepped(news) ==
    [now   |-> NextEvent.time,
     eid   |-> env.eid + Cardinality(news),
     queue |-> (env.queue \ {NextEvent}) \cup news]

(* --------------------------- simpy.Store ------------------------------ *)
\* Store._do_get: the first item leaves the store
DoGetNoPop(items) == items
DoGet(items) == Tail(items)

\* BaseResource._trigger_get with Store._do_get: only the first request of
\* get_queue is looked at; it is served when the store holds an item
CanServe(b) == b.get_queue # <<>> /\ b.items # <<>>

TriggerGet(b) ==
    IF CanServe(b)
    THEN [items |-> DoGet(b.items), get_queue |-> Tail(b.get_queue)]
    ELSE b

\* the get events _trigger_get succeeds (scheduled NORMAL at the current time)
Served(b, time, eid) ==
    IF CanServe(b)
    THEN {Event(time, NORMAL, eid, "get", Head(b.get_queue), Head(b.items))}
    ELSE {}

\* Store.get(): the request joins get_queue (then _trigger_get runs)
RequestAlt(b, p) == [b EXCEPT !.get_queue = <<p>> \o @]
Request(b, p) == [b EXCEPT !.get_queue = Append(@, p)]

\* Store.put(item) with unbounded capacity: the item joins items at once
StorePutAlt(b, bed) == b
StorePut(b, bed) == [b EXCEPT !.items = Append(@, bed)]

\* populate_store: beds with id_attribute 1..num_resources are put
PopulateStoreAlt(num_resources) ==
    [items |-> [i \in 1..num_resources |-> i - 1], get_queue |-> <<>>]
PopulateStore(num_resources) ==
    [items |-> [i \in 1..num_resources |-> i], get_queue |-> <<>>]

(* ------------------------------ Trial --------------------------------- *)
\* Trial.__init__: the results frame starts with a row for run 0
TrialInitResultsAlt == (0 - 1) :> [Arrivals |-> 0, MeanQ |-> [num |-> 0, den |-> 1]]
TrialInitResults == 0 :> [Arrivals |-> 0, MeanQ |-> [num |-> 0, den |-> 1]]

\* the user presses "Run simulation": Trial() and entry of run_trial
NewTrial ==
    /\ tpc \in {"idle", "done"}
    /\ presses > 0
    /\ presses' = presses - 1
    /\ df_trial_results' = TrialInitResults
    /\ all_event_logs' = <<>>
    /\ prev_logs' = IF tpc = "done" THEN all_event_logs ELSE prev_logs
    /\ run' = 0
    /\ tpc' = "loop"
    /\ UNCHANGED <<g, rng, drawn, env, beds, event_log, patient_counter,
                   patients, results_df, attrs, locals, sampled>>

\* random.seed(run)
SeedRandomKeep(r) == rng.random
SeedRandom(r) == [seed |-> r, pos |-> 0]

\* Model.__init__: the results frame starts with a row for patient 1
ModelInitResultsAlt == 0 :> [q |-> 0, los |-> 0]
ModelInitResults == 1 :> [q |-> 0, los |-> 0]

\* one iteration of the loop of run_trial up to the start of env.run():
\* random.seed(run), Model(run), env.process(generator), the until event
TrialIter ==
    /\ tpc = "loop"
    /\ run < g.number_of_runs
    /\ RunLength > 0
    /\ rng' = [random   |-> SeedRandom(run),
               arrivals |-> [seed1 |-> run * ArrSeed1, seed2 |-> run * ArrSeed2,
                             pos |-> 0],
               short    |-> [seed |-> run * g.random_number_set, pos |-> 0],
               long     |-> [seed |-> run * g.random_number_set, pos |-> 0]]
    /\ beds' = PopulateStore(g.n_beds)
    /\ env' = [now |-> 0, eid |-> g.n_beds + 2,
               queue |-> { Event(0, NORMAL, i - 1, "put", 0, i) : i \in 1..g.n_beds }
                         \cup { Event(0, URGENT, g.n_beds, "init_gen", 0, NoBed),
                                Event(RunLength, URGENT, g.n_beds + 1, "until",
                                      0, NoBed) }]
    /\ event_log' = <<>>
    /\ patient_counter' = 0
    /\ patients' = <<>>
    /\ results_df' = ModelInitResults
    /\ attrs' = [bed_los |-> Unset, arrival |-> Unset, wait_bed |-> Unset,
                 total_time |-> Unset,
                 mean_q_time_bed |-> [num |-> 0, den |-> 1],
                 mean_los |-> [num |-> 0, den |-> 1]]
    /\ locals' = <<>>
    /\ sampled' = <<>>
    /\ tpc' = "run"
    /\ UNCHANGED <<g, presses, run, df_trial_results, all_event_logs,
                   prev_logs, drawn>>

(* ------------------------------ Model --------------------------------- *)
\* an entry of Model.event_log
Entry(p, pathway, event_type, event, time, resource_id) ==
    [patient |-> p, pathway |-> pathway, event_type |-> event_type,
     event |-> event, time |-> time, resource_id |-> resource_id]

\* NSPPThinning.sample(): within the patient bound any explored gap, past
\* it a gap that ends the arrivals of this run
ArrivalSupport(counter, now) ==
    IF counter < MaxPatients THEN IATs ELSE {RunLength - now}

\* "self.patient_counter += 1"
IncrementAlt(counter) == 1
Increment(counter) == counter + 1

\* generator_patient_arrivals: one iteration of the loop, up to the yield
GeneratorArrival ==
    /\ Running
    /\ NextEvent.kind \in {"init_gen", "gen_timeout"}
    /\ LET now == NextEvent.time
           p   == Increment(patient_counter)
           pos == rng.arrivals.pos + 1
       IN
       /\ patient_counter' = p
       /\ patients' = Append(patients, "")
       /\ \E sampled_inter \in
              IF p < MaxPatients
              THEN Oracle(ArrKey, pos, ArrivalSupport(p, now))
              ELSE ArrivalSupport(p, now) :
            /\ drawn' = Deliver(drawn, ArrKey, pos, sampled_inter)
            /\ env' = Stepped({ Event(now, URGENT, env.eid, "init_pat", p, NoBed),
                                Event(now + sampled_inter, NORMAL, env.eid + 1,
                                      "gen_timeout", 0, NoBed) })
       /\ rng' = [rng EXCEPT !.arrivals.pos = pos]
    /\ UNCHANGED <<g, beds, event_log, results_df, attrs, locals, sampled>>
    /\ UNCHANGED trialVars

\* random.uniform(0,1) > g.long_stay_prob, with u / USteps drawn and
\* g.long_stay_prob held in hundredths
IsShortStay(u) == u * 100 > g.long_stay_prob * USteps

\* occupy_bed from its start to "yield self.beds.get()"
PatientArrive ==
    /\ Running
    /\ NextEvent.kind = "init_pat"
    /\ LET now == NextEvent.time
           p   == NextEvent.pid
           requested == Request(beds, p)
       IN
       \E u \in Oracle(RandomKey, rng.random.pos + 1, USet) :
         LET short == IsShortStay(u)
             key   == IF short THEN ShortKey ELSE LongKey
             pos   == IF short THEN rng.short.pos + 1 ELSE rng.long.pos + 1
             pathway == IF short THEN "short-stay" ELSE "long-stay"
         IN
         \E z \in Oracle(key, pos, ZSet) :
           LET los == IF short THEN ShortLos[z] ELSE LongLos[z] IN
           /\ drawn' = Deliver(Deliver(drawn, RandomKey, rng.random.pos + 1, u),
                               key, pos, z)
           /\ rng' = IF short
                     THEN [rng EXCEPT !.random.pos = @ + 1, !.short.pos = pos]
                     ELSE [rng EXCEPT !.random.pos = @ + 1, !.long.pos = pos]
           /\ attrs' = [attrs EXCEPT !.bed_los = los, !.arrival = now]
           /\ sampled' = (p :> los) @@ sampled
           /\ patients' = [patients EXCEPT ![p] = pathway]
           /\ event_log' = event_log \o
                << Entry(p, pathway, "arrival_departure", "arrival", now, NoBed),
                   Entry(p, pathway, "queue", "bed_wait_begins", now, NoBed) >>
           /\ locals' = (p :> [start_wait |-> now, bed_resource |-> NoBed])
                        @@ locals
           /\ beds' = TriggerGet(requested)
           /\ env' = Stepped(Served(requested, now, env.eid))
    /\ UNCHANGED <<g, patient_counter, results_df>>
    /\ UNCHANGED trialVars

\* "(self.env.now + self.bed_los) % 24 >= 12"
OvernightAlt(end) == end % HoursPerDay > BlockedFrom + 2
Overnight(end) == end % HoursPerDay >= BlockedFrom

\* "(24 - ((self.env.now + self.bed_los) % 24)) + random.uniform(2.0, 5.0)"
ExtensionAlt(end, u) ==
    (HoursPerDay - (end % HoursPerDay))
Extension(end, u) ==
    (HoursPerDay - (end % HoursPerDay))
    + UniformLo + ((UniformHi - UniformLo) * u) \div USteps

\* "self.wait_bed = self.env.now - start_wait"
WaitBedAlt(now, p) == now - attrs.arrival
WaitBed(now, p) == now - locals[p].start_wait

\* results_df.at[p, col] = v: a row that does not exist is created with NaN
\* in the other column
SetCellAlt(df, p, col, v) ==
    IF col = "los" THEN df
    ELSE IF p \in DOMAIN df
    THEN [df EXCEPT ![p][col] = v]
    ELSE (p :> [[q |-> NaN, los |-> NaN] EXCEPT ![col] = v]) @@ df
SetCell(df, p, col, v) ==
    IF p \in DOMAIN df
    THEN [df EXCEPT ![p][col] = v]
    ELSE (p :> [[q |-> NaN, los |-> NaN] EXCEPT ![col] = v]) @@ df

\* "after_hours_end_time = self.env.now + self.bed_los"
AfterHoursEndAlt(now, bed_los) == now
AfterHoursEnd(now, bed_los) == now + bed_los

\* occupy_bed from the return of beds.get() to "yield env.timeout(bed_los)"
PatientOccupy ==
    /\ Running
    /\ NextEvent.kind = "get"
    /\ LET now == NextEvent.time
           p   == NextEvent.pid
           bed_resource == NextEvent.value
           pathway == patients[p]
           end == AfterHoursEnd(now, attrs.bed_los)
           begins == Entry(p, pathway, "resource_use", "bed_occupy_begins",
                           now, bed_resource)
       IN
       /\ locals' = [locals EXCEPT ![p].bed_resource = bed_resource]
       /\ IF Overnight(end)
          THEN \E u \in Oracle(RandomKey, rng.random.pos + 1, USet) :
                 LET bed_los == attrs.bed_los + Extension(end, u) IN
                 /\ drawn' = Deliver(drawn, RandomKey, rng.random.pos + 1, u)
                 /\ rng' = [rng EXCEPT !.random.pos = @ + 1]
                 /\ attrs' = [attrs EXCEPT !.wait_bed = WaitBed(now, p),
                                           !.bed_los = bed_los]
                 /\ event_log' = event_log \o
                      << begins,
                         Entry(p, pathway, "overnight_log", "overnight_stay",
                               end, bed_resource) >>
                 /\ results_df' = SetCell(SetCell(results_df, p, "q",
                                                  WaitBed(now, p)),
                                          p, "los", bed_los)
                 /\ env' = Stepped({ Event(now + bed_los, NORMAL, env.eid,
                                           "stay_timeout", p, NoBed) })
          ELSE /\ attrs' = [attrs EXCEPT !.wait_bed = WaitBed(now, p)]
               /\ event_log' = Append(event_log, begins)
               /\ results_df' = SetCell(SetCell(results_df, p, "q",
                                                WaitBed(now, p)),
                                        p, "los", attrs.bed_los)
               /\ env' = Stepped({ Event(now + attrs.bed_los, NORMAL, env.eid,
                                         "stay_timeout", p, NoBed) })
               /\ UNCHANGED <<drawn, rng>>
    /\ UNCHANGED <<g, beds, patient_counter, patients, sampled>>
    /\ UNCHANGED trialVars

\* the entries occupy_bed appends after the stay timer
DepartEntriesAlt(p, pathway, now, bed) ==
    << Entry(p, pathway, "arrival_departure", "depart", now, NoBed),
       Entry(p, pathway, "resource_use_end", "bed_occupy_complete", now, bed) >>
DepartEntries(p, pathway, now, bed) ==
    << Entry(p, pathway, "resource_use_end", "bed_occupy_complete", now, bed),
       Entry(p, pathway, "arrival_departure", "depart", now, NoBed) >>

\* Store.put(): the StorePut event, scheduled NORMAL at the current time,
\* whose callback looks at the waiting requests
PutEventsAlt(now, eid, bed) == {}
PutEvents(now, eid, bed) == { Event(now, NORMAL, eid, "put", 0, bed) }

\* occupy_bed after the stay timer: complete, beds.put, total_time, depart
PatientDepart ==
    /\ Running
    /\ NextEvent.kind = "stay_timeout"
    /\ LET now == NextEvent.time
           p   == NextEvent.pid
           bed == locals[p].bed_resource
       IN
       /\ event_log' = event_log \o DepartEntries(p, patients[p], now, bed)
       /\ beds' = StorePut(beds, bed)
       /\ env' = Stepped(PutEvents(now, env.eid, bed))
       /\ attrs' = [attrs EXCEPT !.total_time = now - attrs.arrival]
    /\ UNCHANGED <<g, rng, drawn, patient_counter, patients, results_df,
                   locals, sampled>>
    /\ UNCHANGED trialVars

\* a StorePut event is processed: its callback is _trigger_get
StorePutProcessed ==
    /\ Running
    /\ NextEvent.kind = "put"
    /\ beds' = TriggerGet(beds)
    /\ env' = Stepped(Served(beds, NextEvent.time, env.eid))
    /\ UNCHANGED <<g, rng, drawn, event_log, patient_counter, patients,
                   results_df, attrs, locals, sampled>>
    /\ UNCHANGED trialVars

\* "self.event_log[\"run\"] = self.run_number"
Tagged(log, r) ==
    [i \in 1..Len(log) |->
        [patient |-> log[i].patient, pathway |-> log[i].pathway,
         event_type |-> log[i].event_type, event |-> log[i].event,
         time |-> log[i].time, resource_id |-> log[i].resource_id, run |-> r]]

\* "self.df_trial_results.loc[run] = [len(patient_level_results), mean]"
TrialRowIndexAlt(r) == r + 1
TrialRowIndex(r) == r

\* the until event stops env.run(); the rest of Model.run() and of the
\* loop body of run_trial
RunFinish ==
    /\ Running
    /\ NextEvent.kind = "until"
    /\ env' = Stepped({})
    /\ attrs' = [attrs EXCEPT !.mean_q_time_bed = Mean(results_df, "q"),
                              !.mean_los = Mean(results_df, "los")]
    /\ df_trial_results' =
          (TrialRowIndex(run) :> [Arrivals |-> Cardinality(DOMAIN results_df),
                                  MeanQ |-> Mean(results_df, "q")])
          @@ df_trial_results
    /\ all_event_logs' = Append(all_event_logs, Tagged(event_log, run))
    /\ run' = run + 1
    /\ tpc' = "loop"
    /\ UNCHANGED <<g, presses, prev_logs, rng, drawn, beds, event_log,
                   patient_counter, patients, results_df, locals, sampled>>

\* "self.all_event_logs = pd.concat(self.all_event_logs)"
TrialConcat ==
    /\ tpc = "loop"
    /\ run >= g.number_of_runs
    /\ all_event_logs' = Flatten(all_event_logs)
    /\ tpc' = "done"
    /\ UNCHANGED <<g, presses, run, df_trial_results, prev_logs, rng, drawn,
                   env, beds, event_log, patient_counter, patients,
                   results_df, attrs, locals, sampled>>

Next ==
    \/ NewTrial
    \/ TrialIter
    \/ GeneratorArrival
    \/ PatientArrive
    \/ PatientOccupy
    \/ PatientDepart
    \/ StorePutProcessed
    \/ RunFinish
    \/ TrialConcat

Spec == Init /\ [][Next]_vars

\* the same program, started from a valid or a faulty configuration
SpecAny == InitAny /\ [][Next]_vars

TypeOK ==
    /\ tpc \in {"idle", "loop", "run", "done"}
    /\ patient_counter \in 0..MaxPatients
    /\ env.now \in 0..RunLength
    /\ presses \in 0..2
    /\ run \in 0..g.number_of_runs

(* ===================== reading the event log ========================== *)
LogIdx == 1..Len(event_log)
Pats == 1..patient_counter

\* positions of the entries "ev" of patient p
At(p, ev) == {i \in LogIdx : event_log[i].patient = p /\ event_log[i].event = ev}
Has(p, ev) == At(p, ev) # {}
IdxOf(p, ev) == CHOOSE i \in At(p, ev) : TRUE
TimeOf(p, ev) == event_log[IdxOf(p, ev)].time
BedOf(p, ev) == event_log[IdxOf(p, ev)].resource_id

\* the event names of patient p in log order
EventsOf(p) ==
    LET own == SelectSeq(event_log, LAMBDA e : e.patient = p)
    IN  [i \in 1..Len(own) |-> own[i].event]

IsPrefix(s, t) == Len(s) <= Len(t) /\ s = SubSeq(t, 1, Len(s))

\* p holds a bed: bed_occupy_begins logged, bed_occupy_complete not yet
Holding(p) == Has(p, "bed_occupy_begins") /\ ~Has(p, "bed_occupy_complete")

\* the run is over and the Model still holds its state
RunOver == tpc \in {"loop", "done"} /\ run > 0

(* ============================ C1 ====================================== *)
\* C1: the number of beds held by patients is at most n_beds, and between
\* a bed_occupy_begins and the matching bed_occupy_complete for a bed no
\* other patient logs bed_occupy_begins with that bed.
C1_NoOverAllocation ==
    /\ Cardinality({p \in Pats : Holding(p)}) <= g.n_beds
    /\ \A i, j \in LogIdx :
         ( /\ i < j
           /\ event_log[i].event = "bed_occupy_begins"
           /\ event_log[j].event = "bed_occupy_begins"
           /\ event_log[i].resource_id = event_log[j].resource_id )
         => \E k \in (i + 1)..(j - 1) :
              /\ event_log[k].event = "bed_occupy_complete"
              /\ event_log[k].patient = event_log[i].patient
              /\ event_log[k].resource_id = event_log[i].resource_id

\* every bed is held, a patient waits, and a bed has been handed on
C1_Witness ==
    /\ Cardinality({p \in Pats : Holding(p)}) = g.n_beds
    /\ \E p \in Pats : Has(p, "bed_wait_begins") /\ ~Has(p, "bed_occupy_begins")
    /\ \E p, q \in Pats :
         /\ p # q
         /\ Has(p, "bed_occupy_complete")
         /\ Has(q, "bed_occupy_begins")
         /\ BedOf(q, "bed_occupy_begins") = BedOf(p, "bed_occupy_complete")

(* ============================ C2 ====================================== *)
\* C2: for every patient that occupies a bed, an overnight_stay entry
\* appears iff (bed_occupy_begins time + the length of stay sampled for
\* that patient at its arrival) mod 24 >= 12; with it the recorded Length
\* of Stay is the patient's own sample plus (24 - (end mod 24)) + delta,
\* delta in [2,5); without it the recorded Length of Stay is the sample.
C2_OwnSampleGovernsStay ==
    \A p \in Pats :
      Has(p, "bed_occupy_begins") =>
        LET end == TimeOf(p, "bed_occupy_begins") + sampled[p] IN
        /\ Has(p, "overnight_stay") <=> (end % 24 >= 12)
        /\ Has(p, "overnight_stay") =>
             \E delta \in 2..4 :
               results_df[p].los = sampled[p] + (24 - (end % 24)) + delta
        /\ ~Has(p, "overnight_stay") => results_df[p].los = sampled[p]

(* ============================ C3 ====================================== *)
PlainLife ==
    << "arrival", "bed_wait_begins", "bed_occupy_begins",
       "bed_occupy_complete", "depart" >>
OvernightLife ==
    << "arrival", "bed_wait_begins", "bed_occupy_begins", "overnight_stay",
       "bed_occupy_complete", "depart" >>

\* C3: the entries of every patient appear in the order arrival,
\* bed_wait_begins, bed_occupy_begins, optional overnight_stay,
\* bed_occupy_complete, depart, none repeated; a departed patient has the
\* whole sequence, a patient cut off by the end of the run a prefix of it.
C3_LifecycleOrder ==
    \A p \in Pats :
      /\ IsPrefix(EventsOf(p), PlainLife) \/ IsPrefix(EventsOf(p), OvernightLife)
      /\ Has(p, "depart") => EventsOf(p) \in {PlainLife, OvernightLife}

\* at the end of a run: one patient went through the whole sequence with an
\* overnight stay, one without, and one was cut off waiting or in its bed
C3_Witness ==
    /\ RunOver
    /\ \E p \in Pats : EventsOf(p) = OvernightLife
    /\ \E p \in Pats : EventsOf(p) = PlainLife
    /\ \E p \in Pats : EventsOf(p) = << "arrival", "bed_wait_begins" >>
                        \/ EventsOf(p) = SubSeq(PlainLife, 1, 3)

(* ============================ C4 ====================================== *)
\* C4: for every patient with a depart entry, depart time - arrival time
\* as logged equals Queue Time Bed + Length of Stay of its results row.
C4_TimeInSystem ==
    \A p \in Pats :
      Has(p, "depart") =>
        TimeOf(p, "depart") - TimeOf(p, "arrival")
          = results_df[p].q + results_df[p].los

\* a patient that queued behind others and stayed overnight has departed
C4_Witness ==
    \E p \in Pats :
      /\ Has(p, "depart")
      /\ Has(p, "overnight_stay")
      /\ results_df[p].q > 0
      /\ p > 1

(* ============================ C5 ====================================== *)
\* beds held and patients queued just before log position i
HeldAt(i) ==
    Cardinality({k \in 1..(i - 1) : event_log[k].event = "bed_occupy_begins"})
    - Cardinality({k \in 1..(i - 1) : event_log[k].event = "bed_occupy_complete"})
WaitingAt(i) ==
    Cardinality({k \in 1..(i - 1) : event_log[k].event = "bed_wait_begins"})
    - Cardinality({k \in 1..(i - 1) : event_log[k].event = "bed_occupy_begins"})

\* p, which asked for a bed at time t, occupies one at that same time
OccupiesAt(p, t) ==
    IF Has(p, "bed_occupy_begins")
    THEN TimeOf(p, "bed_occupy_begins") = t /\ results_df[p].q = 0
    ELSE env.now = t

\* p asked at log position i when every bed was held: it is kept waiting,
\* and when it occupies a bed it does so at the time of a
\* bed_occupy_complete of that bed logged after its request
ResumedByRelease(p, i) ==
    Has(p, "bed_occupy_begins") =>
      \E k \in (i + 1)..(IdxOf(p, "bed_occupy_begins") - 1) :
        /\ event_log[k].event = "bed_occupy_complete"
        /\ event_log[k].resource_id = BedOf(p, "bed_occupy_begins")
        /\ event_log[k].time = TimeOf(p, "bed_occupy_begins")

\* a bed_occupy_complete is followed by at most one bed_occupy_begins of
\* that bed before the bed is released again
OneWaiterPerRelease ==
    \A k \in LogIdx :
      event_log[k].event = "bed_occupy_complete" =>
        Cardinality({ j \in LogIdx :
            /\ j > k
            /\ event_log[j].event = "bed_occupy_begins"
            /\ event_log[j].resource_id = event_log[k].resource_id
            /\ ~\E m \in (k + 1)..(j - 1) :
                  /\ event_log[m].event = "bed_occupy_complete"
                  /\ event_log[m].resource_id = event_log[k].resource_id }) <= 1

\* C5 as stated: a patient that requests a bed while at least one bed is
\* free occupies it at the same simulation time with Queue Time Bed 0; a
\* patient that requests while none is free occupies at the time of a
\* bed_occupy_complete of the bed it receives; each release resumes one
\* waiter.
C5_FreeBedImmediately ==
    /\ \A p \in Pats :
         Has(p, "bed_wait_begins") =>
           LET i == IdxOf(p, "bed_wait_begins") IN
           /\ HeldAt(i) < g.n_beds => OccupiesAt(p, event_log[i].time)
           /\ HeldAt(i) >= g.n_beds => ResumedByRelease(p, i)
    /\ OneWaiterPerRelease

\* C5 (amended): a patient that requests a bed while fewer than n_beds
\* patients hold a bed or wait ahead of it occupies a bed at the same
\* simulation time with Queue Time Bed 0; a patient that requests while
\* every bed is held occupies at the time of a bed_occupy_complete of the
\* bed it receives; each release resumes one waiter.
C5_FreeBedUnlessPromised ==
    /\ \A p \in Pats :
         Has(p, "bed_wait_begins") =>
           LET i == IdxOf(p, "bed_wait_begins") IN
           /\ HeldAt(i) + WaitingAt(i) < g.n_beds
                => OccupiesAt(p, event_log[i].time)
           /\ HeldAt(i) >= g.n_beds => ResumedByRelease(p, i)
    /\ OneWaiterPerRelease

\* with one bed: the second patient arrived while the first held the bed
\* and began its stay when the first's stay ended; the third found the bed
\* free with nobody ahead and took it at once
C5_Witness ==
    /\ g.n_beds = 1
    /\ Has(2, "bed_occupy_begins")
    /\ Has(1, "bed_occupy_complete")
    /\ TimeOf(2, "bed_wait_begins") < TimeOf(1, "bed_occupy_complete")
    /\ TimeOf(2, "bed_occupy_begins") = TimeOf(1, "bed_occupy_complete")
    /\ results_df[2].q > 0
    /\ Has(3, "bed_occupy_begins")
    /\ results_df[3].q = 0

(* ============================ C6 ====================================== *)
\* the expiry times of the stay timers of p in a queue
StayEnds(queue, p) ==
    {e.time : e \in {f \in queue : f.kind = "stay_timeout" /\ f.pid = p}}

\* C6: when a patient begins occupying a bed at time t holding
\* length-of-stay value L: if (t + L) mod 24 >= 12, exactly one
\* overnight_stay entry is appended with time t + L and the resource_id of
\* the bed_occupy_begins entry, and the stay timer runs for
\* L + (24 - ((t + L) mod 24)) + delta, delta in [2,5); otherwise no
\* overnight_stay is appended and the stay timer runs for L.
C6_OvernightRule ==
    [][ (Running /\ NextEvent.kind = "get") =>
          LET t == NextEvent.time
              L == attrs.bed_los
              p == NextEvent.pid
              n == Len(event_log)
          IN
          /\ Len(event_log') > n
          /\ event_log'[n + 1].event = "bed_occupy_begins"
          /\ event_log'[n + 1].patient = p
          /\ event_log'[n + 1].time = t
          /\ IF (t + L) % 24 >= 12
             THEN /\ Len(event_log') = n + 2
                  /\ event_log'[n + 2].event = "overnight_stay"
                  /\ event_log'[n + 2].patient = p
                  /\ event_log'[n + 2].time = t + L
                  /\ event_log'[n + 2].resource_id = event_log'[n + 1].resource_id
                  /\ \E delta \in 2..4 :
                       StayEnds(env'.queue, p)
                         = {t + L + (24 - ((t + L) % 24)) + delta}
             ELSE /\ Len(event_log') = n + 1
                  /\ StayEnds(env'.queue, p) = {t + L}
    ]_vars

\* a patient occupied a bed at hour 19 holding a length of stay of 2: the
\* overnight_stay entry is dated 21 and the stay lasted 2 + 3 + delta
C6_Witness ==
    \E p \in Pats :
      /\ Has(p, "bed_occupy_complete")
      /\ TimeOf(p, "bed_occupy_begins") = 19
      /\ Has(p, "overnight_stay")
      /\ TimeOf(p, "overnight_stay") = 21
      /\ TimeOf(p, "bed_occupy_complete") - 19 \in {7, 8, 9}

(* ============================ C7 ====================================== *)
\* the entries of run r in a concatenated log
LogOfRun(log, r) == SelectSeq(log, LAMBDA e : e.run = r)

\* C7: the event log of a run is a function of the configuration and the
\* run index: every run of the second trial produces the event log the run
\* of the same index produced in the first trial.
C7_Deterministic ==
    prev_logs # <<>> =>
      IF tpc = "done"
      THEN all_event_logs = prev_logs
      ELSE \A i \in 1..Len(all_event_logs) :
             all_event_logs[i] = LogOfRun(prev_logs, i - 1)

\* the second trial has re-executed runs 0 and 1
C7_Witness ==
    /\ prev_logs # <<>>
    /\ tpc = "done"
    /\ \E i \in 1..Len(all_event_logs) : all_event_logs[i].run = 1
    /\ \E i \in 1..Len(all_event_logs) :
         all_event_logs[i].event = "overnight_stay"

(* ============================ C8 ====================================== *)
\* the run identifiers of a concatenated log
RunIds(log) == {log[i].run : i \in 1..Len(log)}

\* C8: after run_trial with number_of_runs = N the summary table has
\* exactly N rows with N distinct run identifiers and the concatenated
\* event log contains exactly the same run identifiers.
C8_RunIdentifiers ==
    tpc = "done" =>
      /\ Cardinality(DOMAIN df_trial_results) = g.number_of_runs
      /\ RunIds(all_event_logs) = DOMAIN df_trial_results

\* a trial of more than one run has returned
C8_Witness ==
    /\ tpc = "done"
    /\ g.number_of_runs > 1
    /\ Len(all_event_logs) > 0

(* ============================ C9 ====================================== *)
\* the entries logged by the trial so far
AllEntries == IF tpc = "done" THEN all_event_logs ELSE Flatten(all_event_logs)

\* C9: for each run, Arrivals in the trial summary equals the number of
\* arrival entries in that run's event log.
C9_ArrivalsCountsArrivals ==
    \A r \in 0..(run - 1) :
      r \in DOMAIN df_trial_results =>
        df_trial_results[r].Arrivals =
          Cardinality({i \in 1..Len(AllEntries) :
                          /\ AllEntries[i].run = r
                          /\ AllEntries[i].event = "arrival"})

(* ============================ C10 ===================================== *)
\* the patients that acquired a bed
Acquired == {p \in Pats : Has(p, "bed_occupy_begins")}

\* C10: at the end of a run the results table holds exactly one row per
\* patient that acquired a bed, with both columns set, and Mean Queue Time
\* Bed is the arithmetic mean of Queue Time Bed over those rows.
C10_ResultsRows ==
    RunOver =>
      /\ DOMAIN results_df = Acquired
      /\ \A p \in Acquired :
           /\ results_df[p].q # NaN
           /\ results_df[p].los # NaN
           /\ results_df[p].q
                = TimeOf(p, "bed_occupy_begins") - TimeOf(p, "bed_wait_begins")
      /\ attrs.mean_q_time_bed.den > 0
      /\ attrs.mean_q_time_bed.num * Cardinality(Acquired)
           = SumOver([p \in Acquired |-> results_df[p].q], Acquired)
             * attrs.mean_q_time_bed.den
      /\ df_trial_results[run - 1].MeanQ = attrs.mean_q_time_bed

\* a run ended with two rows, one of a patient that queued, and with a
\* patient still waiting for a bed
C10_Witness ==
    /\ RunOver
    /\ Cardinality(Acquired) >= 2
    /\ \E p \in Acquired : results_df[p].q > 0
    /\ \E p \in Pats : p \notin Acquired /\ Has(p, "bed_wait_begins")

(* ============================ C11 ===================================== *)
\* the configuration breaks Configuration's types: n_beds below 1 or
\* long_stay_prob (held in hundredths) outside [0, 1]
Faulty == g.n_beds <= 0 \/ g.long_stay_prob < 0 \/ g.long_stay_prob > 100

\* C11: a faulty configuration is detected before any run: under it
\* run_trial never executes a run, never records a run in the summary and
\* never returns
C11_FaultyConfigRejected ==
    Faulty => /\ tpc \notin {"run", "done"}
              /\ run = 0
              /\ \A r \in DOMAIN df_trial_results :
                    df_trial_results[r] = TrialInitResults[0]

(* ============================ C12 ===================================== *)
\* the Model of the current run exists (running, or finished and kept)
ModelLive == tpc = "run" \/ RunOver

\* p's stay timer is still pending in the environment
TimerPending(p) ==
    \E e \in env.queue : e.kind = "stay_timeout" /\ e.pid = p

\* p's request for a bed is still queued at the store
Queued(p) == \E i \in 1..Len(beds.get_queue) : beds.get_queue[i] = p

\* C12: Model.run() stops the clock at sim_duration + warm_up_period and
\* abandons what is pending: no arrival, bed_wait_begins, bed_occupy_begins,
\* bed_occupy_complete or depart entry is later than that time; after the
\* run a patient whose stay timer has not expired has no
\* bed_occupy_complete and no depart entry, and a patient still queued has
\* no bed_occupy_begins entry and no results row
C12_RunStopsAtHorizon ==
    LET T == g.sim_duration + g.warm_up_period IN
    /\ ModelLive =>
          /\ env.now <= T
          /\ \A i \in LogIdx :
                event_log[i].event # "overnight_stay" => event_log[i].time <= T
    /\ RunOver =>
          /\ env.now = T
          /\ \A p \in Pats :
                /\ TimerPending(p) =>
                      /\ ~Has(p, "bed_occupy_complete")
                      /\ ~Has(p, "depart")
                /\ Queued(p) =>
                      /\ ~Has(p, "bed_occupy_begins")
                      /\ p \notin DOMAIN results_df

\* a run ended with one patient departed, one in a bed with its timer
\* pending, and one still queued
C12_Witness ==
    /\ RunOver
    /\ \E p \in Pats : Has(p, "depart")
    /\ \E p \in Pats : TimerPending(p) /\ Has(p, "bed_occupy_begins")
    /\ \E p \in Pats : Queued(p) /\ Has(p, "bed_wait_begins")

(* ============================ C13 ===================================== *)
\* the seeds of the length-of-stay streams that have delivered a sample
LosSeedsDrawn == { k[2] : k \in { d \in DOMAIN drawn : d[1] = "normal" } }

\* C13: the length-of-stay samplers are seeded independently per run and
\* per pathway class: within a run the short-stay and the long-stay sampler
\* have different seeds, and two different runs use different seeds (every
\* run that has started samples a length of stay for its first patient, so
\* the runs started so far have left at least as many distinct seeds)
C13_IndependentLosSeeds ==
    /\ tpc = "run" => rng.short.seed # rng.long.seed
    /\ (tpc = "run" /\ patient_counter > 0 /\ Has(1, "arrival")) =>
           Cardinality(LosSeedsDrawn) >= run + 1

(* ============================ C14 ===================================== *)
\* the last entry of the log, when there is one
LastEntry == event_log[Len(event_log)]

\* C14: when a patient departs, the total system time computed is the
\* clock minus that patient's own arrival time, also when other patients
\* arrived in between (total_time is assigned in the step that logs depart
\* and by nothing else, so it is read while depart is the latest entry)
C14_OwnTotalTime ==
    (ModelLive /\ event_log # <<>> /\ LastEntry.event = "depart") =>
        attrs.total_time = LastEntry.time - TimeOf(LastEntry.patient, "arrival")

(* ============================ C15 ===================================== *)
\* the arrival entries of the log, in log order
ArrivalLog == SelectSeq(event_log, LAMBDA e : e.event = "arrival")

\* a patient the generator has created whose process has not started yet
Starting == { e \in env.queue : e.kind = "init_pat" }

\* the k-th arrival entry carries id k, and every iteration of the
\* generator has its one arrival entry once the new process has started
ArrivalsNumbered ==
    ModelLive =>
        /\ \A k \in 1..Len(ArrivalLog) : ArrivalLog[k].patient = k
        /\ Len(ArrivalLog) + Cardinality(Starting) = patient_counter
        /\ Cardinality(Starting) <= 1
        /\ RunOver => Len(ArrivalLog) = patient_counter

\* within a run the counter stays or grows by one
CounterStep == tpc = "run" => patient_counter' \in {patient_counter, patient_counter + 1}

\* C15: patient ids are 1, 2, 3, ... in arrival order: the k-th arrival
\* entry of a run carries id k, each iteration of the generator yields
\* exactly one arrival entry, and the counter never decreases or repeats
C15_SequentialIds == []ArrivalsNumbered /\ [][CounterStep]_vars

\* three arrivals are logged, the later ones after entries of other patients
C15_Witness ==
    /\ tpc = "run"
    /\ Len(ArrivalLog) = 3
    /\ \E i \in LogIdx : /\ event_log[i].event = "bed_occupy_complete"
                         /\ i < IdxOf(3, "arrival")

(* ============================ C16 ===================================== *)
\* C16: the queue for beds is first-in, first-out: if patient a's
\* bed_wait_begins entry precedes patient b's in the log, then a's
\* bed_occupy_begins entry precedes b's
C16_FifoQueue ==
    ModelLive =>
        \A a \in Pats, b \in Pats :
            (/\ Has(a, "bed_wait_begins")
             /\ Has(b, "bed_wait_begins")
             /\ IdxOf(a, "bed_wait_begins") < IdxOf(b, "bed_wait_begins")
             /\ Has(b, "bed_occupy_begins"))
            => /\ Has(a, "bed_occupy_begins")
               /\ IdxOf(a, "bed_occupy_begins") < IdxOf(b, "bed_occupy_begins")

\* two patients waited for a bed at the same time and both were served
C16_Witness ==
    /\ tpc = "run"
    /\ \E a \in Pats, b \in Pats :
          /\ a # b
          /\ Has(a, "bed_occupy_begins") /\ Has(b, "bed_occupy_begins")
          /\ TimeOf(a, "bed_wait_begins") < TimeOf(b, "bed_wait_begins")
          /\ TimeOf(b, "bed_wait_begins") < TimeOf(a, "bed_occupy_begins")
          /\ TimeOf(a, "bed_occupy_begins") < TimeOf(b, "bed_occupy_begins")

(* ============================ C17 ===================================== *)
\* the beds free in the pool
FreeBeds == { beds.items[i] : i \in 1..Len(beds.items) }

\* the store has handed p a bed (its get event carries it) and p has not
\* resumed yet
Handed(p) == \E e \in env.queue : e.kind = "get" /\ e.pid = p

\* the patients that hold a bed: handed one by the store, or occupying one
Holders == { p \in Pats : Handed(p) \/ Holding(p) }

\* the bed a holder holds
HeldBed(p) ==
    IF Handed(p)
    THEN (CHOOSE e \in env.queue : e.kind = "get" /\ e.pid = p).value
    ELSE locals[p].bed_resource

\* C17: beds are conserved: the pool starts with n_beds free beds with ids
\* 1..n_beds; in every state the free beds plus the beds held by patients
\* are n_beds (and are the beds 1..n_beds); a bed_occupy_complete entry
\* carries the resource_id of that patient's bed_occupy_begins entry
C17_BedsConserved ==
    ModelLive =>
        /\ (tpc = "run" /\ patient_counter = 0) =>
               beds.items = [i \in 1..g.n_beds |-> i]
        /\ Len(beds.items) + Cardinality(Holders) = g.n_beds
        /\ FreeBeds \cup { HeldBed(p) : p \in Holders } = 1..g.n_beds
        /\ \A p \in Pats :
              Has(p, "bed_occupy_complete") =>
                  BedOf(p, "bed_occupy_complete") = BedOf(p, "bed_occupy_begins")

\* a bed has been given back, a patient occupies a bed and a bed is free
C17_Witness ==
    /\ tpc = "run"
    /\ \E p \in Pats : Has(p, "bed_occupy_complete")
    /\ \E p \in Pats : Holding(p)
    /\ beds.items # <<>>

(* ============================ C18 ===================================== *)
\* the next step of the environment moves the clock to a later time
ClockAdvances == Running /\ NextEvent.time > env.now

\* C18: the bed pool is work-conserving: whenever the clock is about to
\* advance to a later time, it is not the case that a bed is free in the
\* pool while some patient is suspended waiting for a bed
C18_WorkConserving ==
    ClockAdvances => ~(beds.items # <<>> /\ beds.get_queue # <<>>)

\* the clock is about to advance with every bed back in use after a
\* release, and a patient still waiting
C18_Witness ==
    /\ ClockAdvances
    /\ beds.get_queue # <<>>
    /\ beds.items = <<>>
    /\ \E p \in Pats : Has(p, "depart")
    /\ \E p \in Pats : Holding(p) /\ TimeOf(p, "bed_wait_begins") < env.now
                       /\ TimeOf(p, "bed_occupy_begins") = env.now

(* ============================ C19 ===================================== *)
\* the log without its overnight_stay entries, in log order
TimedLog == SelectSeq(event_log, LAMBDA e : e.event # "overnight_stay")

\* C19: the entries other than overnight_stay are appended in
\* non-decreasing time order; every overnight_stay entry has a time
\* strictly later than that patient's bed_occupy_begins time and strictly
\* earlier than that patient's bed_occupy_complete time, when that exists
C19_LogTimeOrder ==
    ModelLive =>
        /\ \A i \in 1..Len(TimedLog), j \in 1..Len(TimedLog) :
              i < j => TimedLog[i].time <= TimedLog[j].time
        /\ \A p \in Pats :
              Has(p, "overnight_stay") =>
                  /\ Has(p, "bed_occupy_begins")
                  /\ TimeOf(p, "bed_occupy_begins") < TimeOf(p, "overnight_stay")
                  /\ Has(p, "bed_occupy_complete") =>
                        TimeOf(p, "overnight_stay") < TimeOf(p, "bed_occupy_complete")

\* an overnight_stay entry is followed in the log by an earlier-timed entry
\* of another patient, and its patient has completed
C19_Witness ==
    /\ tpc = "run"
    /\ \E p \in Pats :
          /\ Has(p, "overnight_stay")
          /\ Has(p, "bed_occupy_complete")
          /\ \E i \in LogIdx :
                /\ i > IdxOf(p, "overnight_stay")
                /\ event_log[i].time < TimeOf(p, "overnight_stay")

(* ============================ C20 ===================================== *)
\* C20: no patient is discharged in the blocked window: every
\* bed_occupy_complete entry has a time t with t mod 24 < 12, and when the
\* patient has an overnight_stay entry t mod 24 lies in [2, 5), whatever
\* length of stay the shared attribute held when the bed was acquired
C20_NoBlockedDischarge ==
    ModelLive =>
        \A p \in Pats :
            Has(p, "bed_occupy_complete") =>
                LET t == TimeOf(p, "bed_occupy_complete") IN
                /\ t % HoursPerDay < BlockedFrom
                /\ Has(p, "overnight_stay") =>
                      /\ UniformLo <= t % HoursPerDay
                      /\ t % HoursPerDay < UniformHi

\* a patient whose stay was governed by another patient's sample has been
\* discharged after an overnight extension, and another without one
C20_Witness ==
    /\ tpc = "run"
    /\ \E p \in Pats :
          /\ Has(p, "bed_occupy_complete")
          /\ Has(p, "overnight_stay")
          /\ TimeOf(p, "overnight_stay") - TimeOf(p, "bed_occupy_begins")
                # sampled[p]
    /\ \E p \in Pats :
          /\ Has(p, "bed_occupy_complete")
          /\ ~Has(p, "overnight_stay")

====
